---------------------------- MODULE Spec2Model ----------------------------
(***************************************************************************)
(* Model of the persistence layer (src/src/models/data_models.py), the     *)
(* /user/get view (src/src/views/base.py) and the analytics functions      *)
(* (src/src/utils/predict.py) of QuasarTest.                               *)
(*                                                                         *)
(* The store is SQLite reached through SQLAlchemy.  Two facts about it are  *)
(* used throughout:                                                         *)
(*  - an INTEGER PRIMARY KEY column without AUTOINCREMENT gets, when the     *)
(*    INSERT gives no value, the largest id of the table plus one;          *)
(*  - the engine is created without PRAGMA foreign_keys=ON, so the          *)
(*    ForeignKey(..., ondelete='CASCADE') of Activity.user_id is declared   *)
(*    but not enforced.                                                     *)
(* Time is counted in whole days.  Every operation runs in one session and  *)
(* commits once, so an operation is one atomic step; SpecSessions alone      *)
(* takes Activity.add and User.delete statement by statement, for callers   *)
(* that run concurrently.                                                   *)
(***************************************************************************)
EXTENDS Integers, Sequences, FiniteSets, TLC

VARIABLES users, activities, now, last, sessions

vars == <<users, activities, now, last, sessions>>

\* ------------------------------------------------------------------ bounds
\* Largest User id / Activity id the model lets the tables hold.
MaxUid == 2
MaxAid == 3
\* Largest page number and page size asked of pagination.
MaxPage == 2
MaxPerPage == 2
\* Last value of the clock, in days after the start.
MaxNow == 1
\* Most Users / Activities held by the store in the timeline specification.
MaxOwners == 1
MaxEvents == 2
\* Longest and largest bucket sequence given to activity_prob directly.
MaxLen == 4
MaxCount == 3
\* Largest number of Users asked of longest_names.
MaxTop == 3

\* ----------------------------------------------------------- value domains
\* Optional values: None is the empty tuple, a present value a 1-tuple.
None == <<>>
Some(x) == <<x>>

Uids == 1..MaxUid
Aids == 1..MaxAid
Usernames == {"a", "aa"}
Max(S) == CHOOSE x \in S : \A y \in S : y <= x

\* --------------------------------------------------------------- the store
\* config.py creates the engine with no foreign_keys pragma.
ForeignKeysEnforced == FALSE

\* Base.id is mapped_column(primary_key=True): the id SQLite assigns to a row
\* inserted without one.
NextRowId(table) == IF table = {} THEN 1 ELSE Max({r.id : r \in table}) + 1

\* Variant: the id column carries no primary key constraint.
NoPrimaryKey(table, id) == FALSE

\* The primary key constraint: an INSERT of an id already present fails.
PrimaryKeyConflict(table, id) == \E r \in table : r.id = id

\* session.add(self); session.commit(); session.refresh(self): the row as
\* the store holds it and the table after the INSERT, or the error raised.
StoreInsert(table, inst) ==
  LET id  == IF inst.id = None THEN NextRowId(table) ELSE inst.id[1]
      row == [inst EXCEPT !.id = id]
  IN  IF PrimaryKeyConflict(table, id)
      THEN [err |-> "IntegrityError", table |-> table, row |-> row]
      ELSE [err |-> "none", table |-> table \cup {row}, row |-> row]

\* `except exc.IntegrityError`: the only exception class the handlers catch.
Catches(e) == e = "IntegrityError"

\* A ColumnElement `column == value`.  A predicate naming a column the table
\* does not have is malformed: the SELECT/DELETE raises OperationalError.
Columns(cls) ==
  IF cls = "User" THEN {"id", "username", "email", "registration_date"}
                  ELSE {"id", "user_id", "date"}
Malformed(cls, element) == element.col \notin Columns(cls)
Matches(row, element) == row[element.col] = element.val
Filter(table, element) == {r \in table : Matches(r, element)}

\* The error of one statement: the fault the store raises by itself (I/O,
\* lock), else the error of a malformed predicate.
StatementError(cls, element, fault) ==
  IF fault # "none" THEN fault
  ELSE IF Malformed(cls, element) THEN "OperationalError" ELSE "none"

\* Rows in ascending id order (ORDER BY id; also SQLite's scan order).
RECURSIVE OrderById(_)
OrderById(table) ==
  IF table = {} THEN <<>>
  ELSE LET r == CHOOSE x \in table : \A y \in table : x.id <= y.id
       IN  <<r>> \o OrderById(table \ {r})

\* The result of an operation: the table it leaves, the value it returns and
\* the exception that escapes it ("none" when it returns).
Outcome(table, ret, raised) == [table |-> table, ret |-> ret, raised |-> raised]

\* ------------------------------------------------------------- Entity Base
\* Base.add
Base_add(table, inst, fault) ==
  LET ins == StoreInsert(table, inst)
      e   == IF fault # "none" THEN fault ELSE ins.err
  IN  IF e = "none" THEN Outcome(ins.table, Some(ins.row), "none")
      ELSE IF Catches(e) THEN Outcome(table, None, "none")
      ELSE Outcome(table, None, e)

\* Variant: the query is not filtered by the condition.
Base_get_unfiltered(cls, table, element, fault) ==
  LET e == StatementError(cls, element, fault)
  IN  IF e = "none"
      THEN Outcome(table, IF table = {} THEN None ELSE Some(OrderById(table)[1]), "none")
      ELSE IF Catches(e) THEN Outcome(table, None, "none")
      ELSE Outcome(table, None, e)

\* Base.get: session.scalar of the filtered query, the first matching row.
Base_get(cls, table, element, fault) ==
  LET e == StatementError(cls, element, fault)
      m == Filter(table, element)
  IN  IF e = "none"
      THEN Outcome(table, IF m = {} THEN None ELSE Some(OrderById(m)[1]), "none")
      ELSE IF Catches(e) THEN Outcome(table, None, "none")
      ELSE Outcome(table, None, e)

\* Variant: the UPDATE has no WHERE clause on the id.
UpdateEveryRow(table, inst) == {[inst EXCEPT !.id = r.id] : r \in table}

\* The UPDATE of Base.update: every column of the rows WHERE id == self.id is
\* set from the instance (its id included).
UpdateRows(table, inst) ==
  {IF Some(r.id) = inst.id THEN [inst EXCEPT !.id = r.id] ELSE r : r \in table}

\* Base.update
Base_update(table, inst, fault) ==
  IF fault = "none" THEN Outcome(UpdateRows(table, inst), Some(inst), "none")
  ELSE IF Catches(fault) THEN Outcome(table, None, "none")
  ELSE Outcome(table, None, fault)

\* Base.delete (the delete of Activity, which does not override it)
Base_delete(cls, table, element, fault) ==
  LET e == StatementError(cls, element, fault)
      m == Filter(table, element)
  IN  IF e = "none" THEN Outcome(table \ m, Cardinality(m) > 0, "none")
      ELSE IF Catches(e) THEN Outcome(table, FALSE, "none")
      ELSE Outcome(table, FALSE, e)

\* Variant: OFFSET page instead of OFFSET page * per_page.
PageRowsOffsetPage(table, page, per_page) ==
  LET s == OrderById(table)
      hi == page + per_page
  IN  SubSeq(s, page + 1, IF hi < Len(s) THEN hi ELSE Len(s))

\* Base.pagination: ORDER BY id OFFSET page * per_page LIMIT per_page.
PageRows(table, page, per_page) ==
  LET s == OrderById(table)
      lo == page * per_page + 1
      hi == page * per_page + per_page
  IN  SubSeq(s, lo, IF hi < Len(s) THEN hi ELSE Len(s))

\* Base.pagination has no exception handler at all.
Base_pagination(table, page, per_page, fault) ==
  IF fault = "none" THEN Outcome(table, PageRows(table, page, per_page), "none")
  ELSE Outcome(table, <<>>, fault)

\* ------------------------------------------------------------- User Entity
\* The rows removed by the first DELETE of User.delete (line 234):
\* session.query(Activity).filter(Activity.id.in_(ids)).delete()
CascadeRows(acts, ids) == {a \in acts : a.id \in ids}

\* The rows a storage-level ON DELETE CASCADE removes; none, as SQLite does
\* not enforce the foreign key here.
StoreCascade(acts, ids) ==
  IF ForeignKeysEnforced THEN {a \in acts : a.user_id \in ids} ELSE {}

\* User.delete: both DELETEs run in one session and commit once.  The result
\* holds the two tables.
User_delete(usrs, acts, element, fault) ==
  LET e       == StatementError("User", element, fault)
      matched == Filter(usrs, element)
      ids     == {u.id : u \in matched}
      acts2   == (acts \ CascadeRows(acts, ids)) \ StoreCascade(acts, ids)
      same    == [users |-> usrs, activities |-> acts]
  IN  IF e = "none"
      THEN Outcome([users |-> usrs \ matched, activities |-> acts2],
                   Cardinality(matched) > 0, "none")
      ELSE IF Catches(e) THEN Outcome(same, FALSE, "none")
      ELSE Outcome(same, FALSE, e)

\* --------------------------------------------------------- Activity Entity
\* Variant: no existence check before the insert.
Activity_add_unchecked(usrs, acts, inst, fault) == Base_add(acts, inst, fault)

\* Activity.add: the existence check (outside the try), then Base.add's body.
Activity_add(usrs, acts, inst, fault) ==
  IF fault # "none" THEN Outcome(acts, None, fault)
  ELSE IF Filter(usrs, [col |-> "id", val |-> inst.user_id]) = {}
       THEN Outcome(acts, None, "none")
       ELSE Base_add(acts, inst, "none")

\* Variant: the lower end is not part of the range.
BetweenOpenLow(x, lo, hi) == lo < x /\ x <= hi

\* cls.date.between(prev, cur): SQL BETWEEN includes both ends.
Between(x, lo, hi) == lo <= x /\ x <= hi

\* Activity.get_activity_by_months at clock value t; entry i+1 of the result
\* is the code's res[i].
get_activity_by_months(acts, user_id, months, days_per_m, t) ==
  [k \in 1..months |->
     LET i    == k - 1
         cur  == t - i * days_per_m
         prev == t - (i + 1) * days_per_m
     IN  Cardinality({a \in acts : Between(a.date, prev, cur)
                                   /\ a.user_id = user_id})]

\* ------------------------------------------------- User Entity: metrics
\* User.registered_last at clock value t.
registered_last(usrs, days, t) ==
  Cardinality({u \in usrs : Between(u.registration_date, t - days, t)})

\* Variant: of two usernames of one length, the later row comes first.
LaterRowFirst(a, b) ==
  \/ Len(a.username) > Len(b.username)
  \/ Len(a.username) = Len(b.username) /\ a.id > b.id

\* ORDER BY char_length(username) DESC, as SQLite sorts: rows of equal key
\* keep the order of the table scan, which is by ascending id.
SortsBefore(a, b) ==
  \/ Len(a.username) > Len(b.username)
  \/ Len(a.username) = Len(b.username) /\ a.id < b.id

RECURSIVE OrderByNameLength(_)
OrderByNameLength(table) ==
  IF table = {} THEN <<>>
  ELSE LET r == CHOOSE x \in table : \A y \in table \ {x} : SortsBefore(x, y)
       IN  <<r>> \o OrderByNameLength(table \ {r})

\* User.longest_names: ... ORDER BY ... LIMIT top.
longest_names(usrs, top) ==
  LET s == OrderByNameLength(usrs)
  IN  SubSeq(s, 1, IF top < Len(s) THEN top ELSE Len(s))

\* The characters of the strings given as emails and suffixes.
Chars(str) ==
  CASE str = "a"  -> <<"a">>
    [] str = "b"  -> <<"b">>
    [] str = "B"  -> <<"B">>
    [] str = "ab" -> <<"a", "b">>
    [] str = "_b" -> <<"_", "b">>
    [] str = "%"  -> <<"%">>
    [] str = ""   -> <<>>

\* SQLite's LIKE compares ASCII letters without regard to case.
Fold(ch) == IF ch = "B" THEN "b" ELSE ch

\* string LIKE pattern: % stands for any run of characters, _ for any one.
RECURSIVE Like(_, _)
Like(pattern, string) ==
  IF pattern = <<>> THEN string = <<>>
  ELSE IF Head(pattern) = "%"
       THEN \/ Like(Tail(pattern), string)
            \/ string # <<>> /\ Like(pattern, Tail(string))
       ELSE /\ string # <<>>
            /\ Head(pattern) = "_" \/ Fold(Head(pattern)) = Fold(Head(string))
            /\ Like(Tail(pattern), Tail(string))

\* cls.email.endswith(endswith) renders  email LIKE '%' || :endswith  with
\* no escape character.
email_endswith(email, endswith) == Like(<<"%">> \o Chars(endswith), Chars(email))

\* User.percent_emails_endswith; a fraction is <<numerator, denominator>>.
percent_emails_endswith(usrs, endswith) ==
  LET c_all      == Cardinality(usrs)
      c_endswith == Cardinality({u \in usrs : email_endswith(u.email, endswith)})
  IN  IF c_all # 0 THEN <<c_endswith, c_all>> ELSE <<0, 1>>

\* -------------------------------------------------------- Analytics Engine
\* Numbers that are floats in the code are exact fractions <<num, den>> with
\* den > 0 here.
RatLt(p, q) == p[1] * q[2] < q[1] * p[2]
RatEq(p, q) == p[1] * q[2] = q[1] * p[2]

RECURSIVE SumTo(_, _)
SumTo(f, n) == IF n = 0 THEN 0 ELSE f[n] + SumTo(f, n - 1)

\* predict_activity: the least-squares line through (i, counts[i]),
\* i = 0..n-1, evaluated at n.  pinv(a_mat).dot(b) is the solution of the
\* normal equations when n >= 2 and the minimum-norm solution (0, counts[0])
\* when n = 1.
predict_activity(last_activities) ==
  LET n   == Len(last_activities)
      Sy  == SumTo(last_activities, n)
      Sxy == SumTo([k \in 1..n |-> (k - 1) * last_activities[k]], n)
      Sx  == SumTo([k \in 1..n |-> k - 1], n)
      Sxx == SumTo([k \in 1..n |-> (k - 1) * (k - 1)], n)
      D   == n * Sxx - Sx * Sx
  IN  IF n = 1 THEN <<last_activities[1], 1>>
      ELSE <<Sy * D + (n * Sxy - Sx * Sy) * (n * n - Sx), n * D>>

\* Variant: the result is not cut at 1.
activity_prob_uncut(last_activities) ==
  LET count == predict_activity(last_activities)
      prob0 == IF last_activities[1] # 0
               THEN <<count[1], count[2] * last_activities[1]>>
               ELSE <<1, 1>>
  IN  IF RatLt(prob0, <<0, 1>>) THEN <<0, 1>> ELSE prob0

\* activity_prob
activity_prob(last_activities) ==
  LET count == predict_activity(last_activities)
      prob0 == IF last_activities[1] # 0
               THEN <<count[1], count[2] * last_activities[1]>>
               ELSE <<1, 1>>
      prob1 == IF RatLt(prob0, <<0, 1>>) THEN <<0, 1>> ELSE prob0
      prob2 == IF RatLt(<<1, 1>>, prob1) THEN <<1, 1>> ELSE prob1
  IN  prob2

\* ------------------------------------------------------ the /user/get view
\* Defaults of get_activity_by_months, which get_user relies on.
Months == 12
DaysPerM == 30

\* Base.to_dict: values that are neither str nor int become their str().
to_dict(row) == [row EXCEPT !.registration_date = ToString(row.registration_date)]

\* get_user: the JSON response for a request body `content`.
get_user(usrs, acts, content, t) ==
  IF content.id = None /\ content.username = None
  THEN [error |-> 1, user |-> None, activity_prob |-> None]
  ELSE LET found == IF content.id # None
                    THEN Base_get("User", usrs,
                                  [col |-> "id", val |-> content.id[1]], "none").ret
                    ELSE Base_get("User", usrs,
                                  [col |-> "username", val |-> content.username[1]],
                                  "none").ret
       IN  IF found = None
           THEN [error |-> 3, user |-> None, activity_prob |-> None]
           ELSE [error |-> 0, user |-> Some(to_dict(found[1])),
                 activity_prob |->
                   IF content.predict
                   THEN Some(activity_prob(
                          get_activity_by_months(acts, found[1].id, Months, DaysPerM, t)))
                   ELSE None]

\* ----------------------------------------------------------------- inputs
OptUids == {None} \cup {Some(k) : k \in Uids}
OptAids == {None} \cup {Some(k) : k \in Aids}
\* Errors the store raises by itself during a statement.
Faults == {"none", "OperationalError"}
\* Days before the clock's value at which rows are dated.
Offsets == {0, 10, 20, 40, 360}

\* The column values User instances are built with (each column takes two
\* values).
Profiles ==
  {[username |-> "a", email |-> "a", registration_date |-> 0],
   [username |-> "aa", email |-> "b", registration_date |-> -1]}
UserInsts ==
  {[id |-> i, username |-> p.username, email |-> p.email,
    registration_date |-> p.registration_date] : i \in OptUids, p \in Profiles}
ActivityInsts == [id : OptAids, user_id : Uids, date : {0}]
UserElements ==
  {[col |-> "id", val |-> k] : k \in Uids}
    \cup {[col |-> "username", val |-> n] : n \in Usernames}
    \cup {[col |-> "user_id", val |-> 1]}
ActivityElements ==
  {[col |-> "id", val |-> k] : k \in Aids}
    \cup {[col |-> "user_id", val |-> k] : k \in Uids}
    \cup {[col |-> "username", val |-> "a"]}
Insts(cls) == IF cls = "User" THEN UserInsts ELSE ActivityInsts
Elements(cls) == IF cls = "User" THEN UserElements ELSE ActivityElements
Classes == {"User", "Activity"}
Table(cls) == IF cls = "User" THEN users ELSE activities

\* ------------------------------------------------------------------ state
\* `last` is the call whose result the caller is receiving: its name and
\* arguments, the error the store raised by itself during it, what it
\* returned, the exception that escaped it, and the tables as they were
\* before it.  Calls are synchronous and one at a time (the
\* single-threaded request model): the next call starts from Idle.
Idle ==
  [op |-> "idle", arg |-> None, fault |-> "none", ret |-> None,
   raised |-> "none", users |-> {}, activities |-> {}]

Call(op, arg, fault, ret, raised) ==
  [op |-> op, arg |-> arg, fault |-> fault, ret |-> ret, raised |-> raised,
   users |-> users, activities |-> activities]

\* Flask serves each request on a thread of its own; every call opens its
\* own Session on the shared engine.
Callers == {"c1", "c2"}

\* A Session with no statement executed: the `with Session(...)` block is
\* not entered, or is left.  Otherwise `pc` is the statement last executed,
\* `arg` the call's argument, and `users`, `activities` the tables as the
\* Session's open transaction has them.
NoSession == [pc |-> "closed", arg |-> None, users |-> {}, activities |-> {}]

Init ==
  /\ users = {}
  /\ activities = {}
  /\ now = 0
  /\ last = Idle
  /\ sessions = [c \in Callers |-> NoSession]

\* ---------------------------------------------------------------- actions
\* User(...).add()
UserAdd(inst, fault) ==
  LET out == Base_add(users, inst, fault)
  IN  /\ last.op = "idle"
      /\ inst.id = None => NextRowId(users) <= MaxUid
      /\ users' = out.table
      /\ last' = Call("User.add", inst, fault, out.ret, out.raised)
      /\ UNCHANGED <<activities, now, sessions>>

\* Activity(...).add()
ActivityAdd(inst, fault) ==
  LET out == Activity_add(users, activities, inst, fault)
  IN  /\ last.op = "idle"
      /\ inst.id = None => NextRowId(activities) <= MaxAid
      /\ activities' = out.table
      /\ last' = Call("Activity.add", inst, fault, out.ret, out.raised)
      /\ UNCHANGED <<users, now, sessions>>

\* cls.get(element)
Get(cls, element, fault) ==
  LET out == Base_get(cls, Table(cls), element, fault)
  IN  /\ last.op = "idle"
      /\ last' = Call("get", [cls |-> cls, element |-> element], fault, out.ret, out.raised)
      /\ UNCHANGED <<users, activities, now, sessions>>

\* instance.update()
Update(cls, inst, fault) ==
  LET out == Base_update(Table(cls), inst, fault)
  IN  /\ last.op = "idle"
      /\ users' = IF cls = "User" THEN out.table ELSE users
      /\ activities' = IF cls = "Activity" THEN out.table ELSE activities
      /\ last' = Call("update", [cls |-> cls, inst |-> inst], fault, out.ret, out.raised)
      /\ UNCHANGED <<now, sessions>>

\* User.delete(element)
UserDelete(element, fault) ==
  LET out == User_delete(users, activities, element, fault)
  IN  /\ last.op = "idle"
      /\ users' = out.table.users
      /\ activities' = out.table.activities
      /\ last' = Call("User.delete", element, fault, out.ret, out.raised)
      /\ UNCHANGED <<now, sessions>>

\* Activity.delete(element), which is Base.delete
ActivityDelete(element, fault) ==
  LET out == Base_delete("Activity", activities, element, fault)
  IN  /\ last.op = "idle"
      /\ activities' = out.table
      /\ last' = Call("Activity.delete", element, fault, out.ret, out.raised)
      /\ UNCHANGED <<users, now, sessions>>

\* cls.pagination(page, per_page)
Pagination(cls, page, per_page, fault) ==
  LET out == Base_pagination(Table(cls), page, per_page, fault)
  IN  /\ last.op = "idle"
      /\ last' = Call("pagination", [cls |-> cls, page |-> page, per_page |-> per_page],
                      fault, out.ret, out.raised)
      /\ UNCHANGED <<users, activities, now, sessions>>

\* The caller has the result; the next call may start.
Return ==
  /\ last.op # "idle"
  /\ last' = Idle
  /\ UNCHANGED <<users, activities, now, sessions>>

Next ==
  \/ \E cls \in Classes : \E el \in Elements(cls), f \in Faults : Get(cls, el, f)
  \/ \E inst \in UserInsts, f \in Faults : UserAdd(inst, f)
  \/ \E inst \in ActivityInsts, f \in Faults : ActivityAdd(inst, f)
  \/ \E cls \in Classes : \E inst \in Insts(cls), f \in Faults : Update(cls, inst, f)
  \/ \E el \in UserElements, f \in Faults : UserDelete(el, f)
  \/ \E el \in ActivityElements, f \in Faults : ActivityDelete(el, f)
  \/ \E cls \in Classes, page \in 0..MaxPage, per_page \in 1..MaxPerPage, f \in Faults :
        Pagination(cls, page, per_page, f)
  \/ Return

Spec == Init /\ [][Next]_vars

\* The calls of an entity's life alone: User.add, Activity.add, User.delete.
NextLifecycle ==
  \/ \E inst \in UserInsts, f \in Faults : UserAdd(inst, f)
  \/ \E inst \in ActivityInsts, f \in Faults : ActivityAdd(inst, f)
  \/ \E el \in UserElements, f \in Faults : UserDelete(el, f)
  \/ Return

SpecLifecycle == Init /\ [][NextLifecycle]_vars

\* ------------------------------------------------- the timeline of a User
\* Users and Activities dated relative to the clock, as the tests and the
\* data generator build them (id left to the store).
TimelineUsers(t) ==
  {[id |-> None, username |-> "a", email |-> "a", registration_date |-> t - o] :
     o \in Offsets}
TimelineActivities(t) ==
  {[id |-> None, user_id |-> u, date |-> t - o] : u \in Uids, o \in Offsets}
MonthChoices == {1, 2, Months}
DayChoices == {10, DaysPerM}
Contents == [id : OptUids, username : {None, Some("a")}, predict : BOOLEAN]

\* datetime.now() moves on between calls.
Tick ==
  /\ last.op = "idle"
  /\ now < MaxNow
  /\ now' = now + 1
  /\ UNCHANGED <<users, activities, last, sessions>>

\* Activity.get_activity_by_months(user_id, months, days_per_m)
GetActivityByMonths(user_id, months, days_per_m) ==
  /\ last.op = "idle"
  /\ last' = Call("get_activity_by_months",
                  [user_id |-> user_id, months |-> months, days_per_m |-> days_per_m],
                  "none",
                  get_activity_by_months(activities, user_id, months, days_per_m, now),
                  "none")
  /\ UNCHANGED <<users, activities, now, sessions>>

\* GET /user/get with body `content`
GetUser(content) ==
  /\ last.op = "idle"
  /\ last' = Call("get_user", content, "none",
                  get_user(users, activities, content, now), "none")
  /\ UNCHANGED <<users, activities, now, sessions>>

NextTimeline ==
  \/ \E inst \in TimelineUsers(now) :
        Cardinality(users) < MaxOwners /\ UserAdd(inst, "none")
  \/ \E inst \in TimelineActivities(now) :
        Cardinality(activities) < MaxEvents /\ ActivityAdd(inst, "none")
  \/ Tick
  \/ \E u \in Uids, m \in MonthChoices, d \in DayChoices : GetActivityByMonths(u, m, d)
  \/ \E content \in Contents : GetUser(content)
  \/ Return

SpecTimeline == Init /\ [][NextTimeline]_vars

\* ------------------------------------------------- the metrics of Users
\* What a User is registered with: username, email, days before the clock's
\* value (negative: a registration_date ahead of the clock).
Registrations ==
  {<<"a", "a", 0>>, <<"aa", "b", 3>>, <<"aa", "ab", 7>>,
   <<"a", "B", 8>>, <<"aa", "a", -1>>}
MetricUsers(t) ==
  {[id |-> None, username |-> r[1], email |-> r[2], registration_date |-> t - r[3]] :
     r \in Registrations}
DaysChoices == {0, 3, 7}
Suffixes == {"", "a", "b", "_b", "%"}

\* User.registered_last(days)
RegisteredLast(days) ==
  /\ last.op = "idle"
  /\ last' = Call("registered_last", days, "none",
                  registered_last(users, days, now), "none")
  /\ UNCHANGED <<users, activities, now, sessions>>

\* User.longest_names(top)
LongestNames(top) ==
  /\ last.op = "idle"
  /\ last' = Call("longest_names", top, "none", longest_names(users, top), "none")
  /\ UNCHANGED <<users, activities, now, sessions>>

\* User.percent_emails_endswith(endswith)
PercentEmailsEndswith(endswith) ==
  /\ last.op = "idle"
  /\ last' = Call("percent_emails_endswith", endswith, "none",
                  percent_emails_endswith(users, endswith), "none")
  /\ UNCHANGED <<users, activities, now, sessions>>

NextMetrics ==
  \/ \E inst \in MetricUsers(now) : UserAdd(inst, "none")
  \/ \E el \in UserElements : UserDelete(el, "none")
  \/ Tick
  \/ \E days \in DaysChoices : RegisteredLast(days)
  \/ \E top \in 0..MaxTop : LongestNames(top)
  \/ \E endswith \in Suffixes : PercentEmailsEndswith(endswith)
  \/ Return

SpecMetrics == Init /\ [][NextMetrics]_vars

\* ------------------------------------------ calls of concurrent callers
\* Activity.add and User.delete statement by statement.  The driver opens
\* SQLite's transaction at the first INSERT or DELETE of a Session, not at a
\* SELECT; the transaction holds the write lock of the database until the
\* Session commits or is closed.
InTransaction(c) == sessions[c].pc \in {"activities_deleted", "users_deleted"}
WriteLockFree(c) == \A d \in Callers \ {c} : ~InTransaction(d)

SessionUsers ==
  {[id |-> None, username |-> "a", email |-> "a", registration_date |-> 0]}
SessionActivities == [id : {None}, user_id : Uids, date : {0}]
SessionElements == {[col |-> "id", val |-> k] : k \in Uids}

\* Variant: closing the Session keeps what its statements did.
KeepStatements(committed, working) == working

\* Session.close() without commit (leaving the `with` block on an exception
\* or a return in the handler), or the death of the process: SQLite rolls
\* the open transaction back.
Rollback(committed, working) == committed

\* Activity.add, the existence check:
\* if not session.query(User).filter(User.id == self.user_id).scalar()
ActivityAddCheck(c, inst) ==
  /\ sessions[c].pc = "closed"
  /\ IF Filter(users, [col |-> "id", val |-> inst.user_id]) = {}
     THEN /\ last' = Call("Activity.add", inst, "none", None, "none")
          /\ UNCHANGED sessions
     ELSE /\ last' = Idle
          /\ sessions' = [sessions EXCEPT ![c] = [NoSession EXCEPT !.pc = "checked",
                                                                   !.arg = inst]]
  /\ UNCHANGED <<users, activities, now>>

\* Activity.add, session.add(self); session.commit(); session.refresh(self)
ActivityAddInsert(c) ==
  LET out == Base_add(activities, sessions[c].arg, "none")
  IN  /\ sessions[c].pc = "checked"
      /\ WriteLockFree(c)
      /\ NextRowId(activities) <= MaxAid
      /\ activities' = out.table
      /\ sessions' = [sessions EXCEPT ![c] = NoSession]
      /\ last' = Call("Activity.add", sessions[c].arg, "none", out.ret, out.raised)
      /\ UNCHANGED <<users, now>>

\* User.delete, session.query(Activity).filter(Activity.id.in_(ids)).delete()
UserDeleteActivities(c, element) ==
  LET ids == {u.id : u \in Filter(users, element)}
  IN  /\ sessions[c].pc = "closed"
      /\ WriteLockFree(c)
      /\ sessions' = [sessions EXCEPT ![c] =
                        [pc |-> "activities_deleted", arg |-> element,
                         users |-> users,
                         activities |-> (activities \ CascadeRows(activities, ids))
                                          \ StoreCascade(activities, ids)]]
      /\ last' = Idle
      /\ UNCHANGED <<users, activities, now>>

\* User.delete, deleted = session.query(cls).filter(element).delete()
UserDeleteUsers(c) ==
  /\ sessions[c].pc = "activities_deleted"
  /\ sessions' = [sessions EXCEPT ![c].pc = "users_deleted",
                                  ![c].users = @ \ Filter(@, sessions[c].arg)]
  /\ last' = Idle
  /\ UNCHANGED <<users, activities, now>>

\* User.delete, session.commit() and return deleted > 0
UserDeleteCommit(c) ==
  /\ sessions[c].pc = "users_deleted"
  /\ users' = sessions[c].users
  /\ activities' = sessions[c].activities
  /\ sessions' = [sessions EXCEPT ![c] = NoSession]
  /\ last' = Call("User.delete", sessions[c].arg, "none",
                  Cardinality(users \ sessions[c].users) > 0, "none")
  /\ UNCHANGED now

\* User.delete ends before its commit: the next statement raises an error of
\* the store, or the process is interrupted.  `at` is the statement last
\* executed.
UserDeleteFail(c) ==
  /\ InTransaction(c)
  /\ users' = Rollback(users, sessions[c].users)
  /\ activities' = Rollback(activities, sessions[c].activities)
  /\ sessions' = [sessions EXCEPT ![c] = NoSession]
  /\ last' = Call("User.delete", [element |-> sessions[c].arg, at |-> sessions[c].pc],
                  "OperationalError", FALSE, "OperationalError")
  /\ UNCHANGED now

NextSessions ==
  \/ \E inst \in SessionUsers :
        (\A c \in Callers : ~InTransaction(c)) /\ UserAdd(inst, "none")
  \/ Return
  \/ \E c \in Callers, inst \in SessionActivities : ActivityAddCheck(c, inst)
  \/ \E c \in Callers : ActivityAddInsert(c)
  \/ \E c \in Callers, el \in SessionElements : UserDeleteActivities(c, el)
  \/ \E c \in Callers : UserDeleteUsers(c)
  \/ \E c \in Callers : UserDeleteCommit(c)
  \/ \E c \in Callers : UserDeleteFail(c)

SpecSessions == Init /\ [][NextSessions]_vars

\* ------------------------------------------- the analytics functions alone
\* Nonempty sequences of non-negative bucket counts.
CountSeqs == UNION {[1..n -> 0..MaxCount] : n \in 1..MaxLen}

\* activity_prob(last_activities)
ActivityProb(last_activities) ==
  /\ last.op = "idle"
  /\ last' = Call("activity_prob", last_activities, "none",
                  activity_prob(last_activities), "none")
  /\ UNCHANGED <<users, activities, now, sessions>>

NextAnalytics ==
  \/ \E c \in CountSeqs : ActivityProb(c)
  \/ Return

SpecAnalytics == Init /\ [][NextAnalytics]_vars

\* ------------------------------------------------------------------ claims
\* The call in `last` ran on a store that raised no error by itself.
Healthy(op) == last.op = op /\ last.fault = "none"

\* C1 (as claimed): after User.delete(predicate) returns, no Activity row has
\* the user_id of a User that matched the predicate.
C1_CascadeInvariant ==
  (Healthy("User.delete") /\ last.raised = "none") =>
    \A u \in Filter(last.users, last.arg) :
      \A a \in activities : a.user_id # u.id

\* The User of an Activity instance exists in the tables before the call.
OwnerExists == \E u \in last.users : u.id = last.arg.user_id

\* C2 (as claimed): Activity.add returns None and changes no table when no
\* User has id = user_id, and inserts exactly one Activity row when one has.
C2_ReferentialGuard ==
  Healthy("Activity.add") =>
    /\ last.raised = "none"
    /\ users = last.users
    /\ IF OwnerExists
       THEN /\ last.ret # None
            /\ last.activities \subseteq activities
            /\ Cardinality(activities) = Cardinality(last.activities) + 1
       ELSE last.ret = None /\ activities = last.activities

\* The instance carries an id that a row of the table already has.
IdTaken(inst, table) == \E r \in table : Some(r.id) = inst.id

\* C2 (amended): as claimed, except that with an existing User the insert of
\* an instance whose explicit id is already taken by an Activity row returns
\* None and changes no table.
C2_ReferentialGuardAmended ==
  Healthy("Activity.add") =>
    /\ last.raised = "none"
    /\ users = last.users
    /\ IF OwnerExists /\ ~IdTaken(last.arg, last.activities)
       THEN /\ last.ret # None
            /\ last.ret[1] \notin last.activities
            /\ last.ret[1].user_id = last.arg.user_id
            /\ last.ret[1].date = last.arg.date
            /\ activities = last.activities \cup {last.ret[1]}
       ELSE last.ret = None /\ activities = last.activities

C2_Witness ==
  /\ Healthy("Activity.add")
  /\ ~OwnerExists
  /\ last.users # {}
  /\ last.activities # {}
  /\ last.ret = None

\* C3: a User.add with an explicit id that a User already has returns None,
\* no exception escapes, the Users table is unchanged; and in every state no
\* two Users share an id.
C3_IdentifierUniqueness ==
  /\ (Healthy("User.add") /\ IdTaken(last.arg, last.users)) =>
       /\ last.raised = "none"
       /\ last.ret = None
       /\ users = last.users
       /\ Cardinality({u \in users : Some(u.id) = last.arg.id}) = 1
  /\ \A u1, u2 \in users : u1.id = u2.id => u1 = u2

C3_Witness ==
  /\ Healthy("User.add")
  /\ IdTaken(last.arg, last.users)
  /\ \E u \in last.users : Some(u.id) = last.arg.id /\ u.username # last.arg.username

\* C4: after a successful User.add, get(id == returned id) yields a User equal
\* to the returned one in id, username, email and registration_date, and
\* these are the values the instance was created with.
C4_RoundTrip ==
  (Healthy("User.add") /\ last.ret # None) =>
    LET created == last.ret[1]
        got == Base_get("User", users, [col |-> "id", val |-> created.id], "none")
    IN  /\ got.raised = "none"
        /\ got.ret # None
        /\ got.ret[1].id = created.id
        /\ got.ret[1].username = created.username
        /\ got.ret[1].email = created.email
        /\ got.ret[1].registration_date = created.registration_date
        /\ created.username = last.arg.username
        /\ created.email = last.arg.email
        /\ created.registration_date = last.arg.registration_date
        /\ last.arg.id # None => created.id = last.arg.id[1]

C4_Witness ==
  /\ Healthy("User.add")
  /\ last.ret # None
  /\ last.arg.id = None
  /\ last.users # {}

\* The tables of class cls before and after the call in `last`.
Before(cls) == IF cls = "User" THEN last.users ELSE last.activities
After(cls) == IF cls = "User" THEN users ELSE activities
Other(cls) == IF cls = "User" THEN "Activity" ELSE "User"

\* C5: update(instance) returns the instance; the row with the instance's id,
\* if there is one, then holds the instance's values under the same id; every
\* other row and the other table are unchanged; with no such row nothing
\* changes.
C5_UpdateFrame ==
  Healthy("update") =>
    LET cls    == last.arg.cls
        inst   == last.arg.inst
        target == {r \in Before(cls) : Some(r.id) = inst.id}
    IN  /\ last.raised = "none"
        /\ last.ret = Some(inst)
        /\ After(Other(cls)) = Before(Other(cls))
        /\ \A r \in Before(cls) \ target : r \in After(cls)
        /\ {r.id : r \in After(cls)} = {r.id : r \in Before(cls)}
        /\ Cardinality(After(cls)) = Cardinality(Before(cls))
        /\ target = {} => After(cls) = Before(cls)
        /\ \A r \in target :
             \E w \in After(cls) :
               /\ w.id = r.id
               /\ \A c \in Columns(cls) \ {"id"} : w[c] = inst[c]

C5_Witness ==
  /\ Healthy("update")
  /\ Cardinality(Before(last.arg.cls)) >= 2
  /\ After(last.arg.cls) # Before(last.arg.cls)

\* The rows of a sequence, and sequences in strictly ascending id order.
Range(s) == {s[i] : i \in 1..Len(s)}
Ascending(s) == \A i, j \in 1..Len(s) : i < j => s[i].id < s[j].id

RECURSIVE Pages(_, _, _)
\* Pages 0..page of the table, one after the other.
Pages(table, page, per_page) ==
  IF page < 0 THEN <<>>
  ELSE Pages(table, page - 1, per_page) \o PageRows(table, page, per_page)

\* C6: pagination(page, perPage) returns the rows at positions
\* page*perPage .. page*perPage+perPage-1 of the ascending-id ordering; pages
\* with distinct numbers are disjoint, and pages 0, 1, 2, ... up to one that
\* covers the table give all its rows in ascending id order.
C6_PaginationPartition ==
  Healthy("pagination") =>
    LET table == Before(last.arg.cls)
        page == last.arg.page
        per_page == last.arg.per_page
        n == Cardinality(table)
        got == last.ret
    IN  /\ last.raised = "none"
        /\ Len(got) <= per_page
        /\ Ascending(got)
        /\ Range(got) \subseteq table
        \* got[i] is the row with exactly page*per_page + i - 1 rows before it
        /\ \A i \in 1..Len(got) :
             Cardinality({r \in table : r.id < got[i].id}) = page * per_page + i - 1
        /\ Len(got) = IF n - page * per_page >= per_page THEN per_page
                      ELSE IF n - page * per_page > 0 THEN n - page * per_page
                      ELSE 0
        /\ \A q \in 0..(MaxPage + n) :
             q # page => Range(PageRows(table, q, per_page)) \cap Range(got) = {}
        /\ \A q \in 0..(MaxPage + n) :
             (q + 1) * per_page >= n =>
               LET all == Pages(table, q, per_page)
               IN  Len(all) = n /\ Ascending(all) /\ Range(all) = table

C6_Witness ==
  /\ Healthy("pagination")
  /\ last.arg.page >= 1
  /\ last.arg.per_page = 2
  /\ Len(last.ret) = 1
  /\ Cardinality(Before(last.arg.cls)) = 3

\* C10 (as claimed): no exception escapes add, get, update, delete,
\* pagination, Activity.add or User.delete, whatever error the store raises.
C10_NoExceptionEscapes ==
  last.op \in {"User.add", "Activity.add", "get", "update", "User.delete",
               "Activity.delete", "pagination"} => last.raised = "none"

\* C7: for a nonempty sequence of non-negative counts activity_prob returns
\* a value v with 0 <= v <= 1: exactly 1 when counts[0] = 0, and otherwise
\* predict_activity(counts) / counts[0] cut to [0, 1].
C7_ProbabilityBounds ==
  last.op = "activity_prob" =>
    LET counts == last.arg
        v      == last.ret
        p      == predict_activity(counts)
        ratio  == <<p[1], p[2] * counts[1]>>
    IN  /\ v[2] > 0
        /\ ~RatLt(v, <<0, 1>>)
        /\ ~RatLt(<<1, 1>>, v)
        /\ counts[1] = 0 => v = <<1, 1>>
        /\ counts[1] # 0 =>
             /\ RatLt(ratio, <<0, 1>>) => RatEq(v, <<0, 1>>)
             /\ RatLt(<<1, 1>>, ratio) => RatEq(v, <<1, 1>>)
             /\ (~RatLt(ratio, <<0, 1>>) /\ ~RatLt(<<1, 1>>, ratio)) => RatEq(v, ratio)

C7_Witness ==
  /\ last.op = "activity_prob"
  /\ last.arg[1] # 0
  /\ Len(last.arg) >= 3
  /\ RatLt(<<0, 1>>, last.ret)
  /\ RatLt(last.ret, <<1, 1>>)

\* C8 (as claimed): get_activity_by_months returns `months` counts, entry i
\* counting the Activities of user_id dated in the half-open window
\* (now - (i+1)*days_per_m, now - i*days_per_m], so that no Activity is counted
\* in two entries.
C8_MonthlyBucketing ==
  last.op = "get_activity_by_months" =>
    LET a == last.arg
    IN  /\ Len(last.ret) = a.months
        /\ \A i \in 0..(a.months - 1) :
             last.ret[i + 1] =
               Cardinality({x \in activities :
                              /\ x.user_id = a.user_id
                              /\ now - (i + 1) * a.days_per_m < x.date
                              /\ x.date <= now - i * a.days_per_m})

\* C9 (as claimed): once a User has an Activity dated at the User's
\* registration_date, /user/get with predict=true answers with an
\* activity_prob that is present and greater than 0.
C9_PositiveProbability ==
  (last.op = "get_user" /\ last.arg.predict /\ last.ret.error = 0) =>
    \A u \in users :
      (/\ u.id = last.ret.user[1].id
       /\ \E x \in activities : x.user_id = u.id /\ x.date = u.registration_date)
      => /\ last.ret.activity_prob # None
         /\ RatLt(<<0, 1>>, last.ret.activity_prob[1])

C12_RegistrationWindow ==
  last.op = "registered_last" =>
    last.ret = Cardinality({u \in users : /\ now - last.arg <= u.registration_date
                                          /\ u.registration_date <= now})

\* registered_last counted a User registered exactly `days` days ago and left
\* out a User whose registration_date is ahead of the clock.
C12_Witness ==
  /\ last.op = "registered_last"
  /\ last.arg > 0
  /\ last.ret = 1
  /\ \E u \in users : u.registration_date = now - last.arg
  /\ \E u \in users : u.registration_date > now

\* The string ends with the suffix, character for character.
EndsWith(string, suffix) ==
  /\ Len(suffix) <= Len(string)
  /\ SubSeq(string, Len(string) - Len(suffix) + 1, Len(string)) = suffix

\* C13 (as claimed): percent_emails_endswith(suffix) is the number of Users
\* whose email ends with suffix over the number of Users, within [0, 1], and
\* 0 when there is no User.
C13_EmailFraction ==
  last.op = "percent_emails_endswith" =>
    LET total == Cardinality(users)
        ending == {u \in users : EndsWith(Chars(u.email), Chars(last.arg))}
    IN  /\ ~RatLt(last.ret, <<0, 1>>)
        /\ ~RatLt(<<1, 1>>, last.ret)
        /\ IF total = 0 THEN RatEq(last.ret, <<0, 1>>)
           ELSE RatEq(last.ret, <<Cardinality(ending), total>>)

\* C14 (as claimed): a User.delete(predicate) call removes an Activity row
\* only if the User whose id is the Activity's user_id matches the predicate;
\* the Activities of the other Users stay as they were.
C14_OnlyWithOwner ==
  (Healthy("User.delete") /\ last.raised = "none") =>
    /\ activities \subseteq last.activities
    /\ \A a \in last.activities \ activities :
         \E u \in Filter(last.users, last.arg) : u.id = a.user_id

\* A User.delete ended after its Activity DELETE and before its User DELETE.
FailedBetweenDeletes ==
  /\ last.op = "User.delete"
  /\ last.raised # "none"
  /\ last.arg.at = "activities_deleted"

\* The Activities of matching Users that the Activity DELETE of the failed
\* User.delete had removed in its transaction, each with its User.
RemovedWithOwner ==
  LET matched == Filter(last.users, last.arg.element)
      ids     == {u.id : u \in matched}
  IN  {<<a, u>> \in CascadeRows(last.activities, ids) \X matched : a.user_id = u.id}

\* C15 (as claimed): when User.delete fails or is interrupted after the
\* Activity delete and before the User delete, the store is left committed
\* with Activities of a matching User removed and that User still present.
C15_NonAtomicCascade ==
  (FailedBetweenDeletes /\ RemovedWithOwner # {}) =>
    \E p \in RemovedWithOwner : p[1] \notin activities /\ p[2] \in users

\* C15 (amended): both DELETEs of User.delete belong to one transaction that
\* is committed once, after the User delete; a User.delete that fails or is
\* interrupted before that commit leaves both committed tables as they were.
C15_CascadeAtomic ==
  (last.op = "User.delete" /\ last.raised # "none") =>
    users = last.users /\ activities = last.activities

\* A User.delete failed between its two DELETEs after removing, in its
\* transaction, an Activity of a matching User; both rows are in the store.
C15_Witness ==
  /\ FailedBetweenDeletes
  /\ \E p \in RemovedWithOwner : p[1] \in activities /\ p[2] \in users

\* C16 (as claimed): in every committed state reached by interleaved
\* Activity.add and User.delete calls, the user_id of each Activity is the id
\* of an existing User.
C16_NoOrphanActivity ==
  \A a \in activities : \E u \in users : u.id = a.user_id

=============================================================================
